---- MODULE Spec2Model ----
(***************************************************************************)
(* Model of package/model/individuals.py: one Individual, its constructor  *)
(* and its next_step method; then two Individuals that share the module's  *)
(* random generator and are stepped tick by tick.                          *)
(*                                                                         *)
(* Real numbers are exact rationals <<n, d>> in lowest terms with d > 0    *)
(* (numpy float64 rounding is not modelled).  numpy arrays are sequences   *)
(* of rationals; elementwise operations follow numpy's broadcasting rule   *)
(* for one-dimensional operands (equal lengths, or one operand of length   *)
(* 1); a python exception leaves the assignments made before it in place.  *)
(***************************************************************************)
EXTENDS Integers, Sequences, FiniteSets, TLC

(***************************************************************************)
(* Bounds of the model.                                                    *)
(***************************************************************************)
MaxM == 2
MaxInertia == 2
MaxSteps == 3

(***************************************************************************)
(* Evaluation helpers: TLC passes operator arguments unevaluated, so an    *)
(* argument used k times is computed k times.  Strict1 and Strict2 apply   *)
(* Op to the values of their arguments, each computed once.                *)
(***************************************************************************)
Strict1(Op(_), x0) == CHOOSE r \in {Op(x) : x \in {x0}} : TRUE

Strict2(Op(_, _), x0, y0) == CHOOSE r \in {Op(x, y) : x \in {x0}, y \in {y0}} : TRUE

(***************************************************************************)
(* Exact rational arithmetic.                                              *)
(***************************************************************************)
Abs(x) == IF x < 0 THEN -x ELSE x

GCD[a \in Nat, b \in Nat] == IF b = 0 THEN a ELSE GCD[b, a % b]

RatF[n \in Int, d \in Nat] ==
    IF n = 0 THEN <<0, 1>> ELSE <<n \div GCD[Abs(n), d], d \div GCD[Abs(n), d]>>

Rat(n, d) == RatF[n, d]

R0 == <<0, 1>>
R1 == <<1, 1>>
RAdd(x0, y0) == Strict2(LAMBDA x, y : Rat(x[1] * y[2] + y[1] * x[2], x[2] * y[2]), x0, y0)
RSub(x0, y0) == Strict2(LAMBDA x, y : Rat(x[1] * y[2] - y[1] * x[2], x[2] * y[2]), x0, y0)
RMul(x0, y0) == Strict2(LAMBDA x, y : Rat(x[1] * y[1], x[2] * y[2]), x0, y0)
RDivInt(x0, k0) == Strict2(LAMBDA x, k : Rat(x[1], x[2] * k), x0, k0)
RLe(x0, y0) == Strict2(LAMBDA x, y : x[1] * y[2] <= y[1] * x[2], x0, y0)
RLt(x0, y0) == Strict2(LAMBDA x, y : x[1] * y[2] < y[1] * x[2], x0, y0)
RMin(x0, y0) == Strict2(LAMBDA x, y : IF RLe(x, y) THEN x ELSE y, x0, y0)
RMax(x0, y0) == Strict2(LAMBDA x, y : IF RLe(x, y) THEN y ELSE x, x0, y0)
RBetween(x, lo, hi) == Strict1(LAMBDA v : RLe(lo, v) /\ RLe(v, hi), x)

(***************************************************************************)
(* One-dimensional numpy arrays.  Every operation returns a sequence.      *)
(***************************************************************************)
\* Length of the broadcast of two 1-d shapes; 0 when numpy raises ValueError.
BShape(a0, b0) ==
    Strict2(LAMBDA a, b : IF a = b THEN a ELSE IF a = 1 THEN b ELSE IF b = 1 THEN a ELSE 0, a0, b0)

At(v, i) == IF Len(v) = 1 THEN v[1] ELSE v[i]

\* Op applied elementwise to two arrays, with broadcasting.
Map2(Op(_, _), a0, b0) ==
    Strict2(LAMBDA a, b : [i \in 1..BShape(Len(a), Len(b)) |-> Op(At(a, i), At(b, i))] \o <<>>, a0, b0)

\* Op applied to every element of an array.
Map1(Op(_), v0) == Strict1(LAMBDA v : [i \in 1..Len(v) |-> Op(v[i])] \o <<>>, v0)

VAdd(a, b) == Map2(RAdd, a, b)
VSub(a, b) == Map2(RSub, a, b)
VMul(a, b) == Map2(RMul, a, b)
VScale(c, v) == Map1(LAMBDA x : RMul(c, x), v)
VRSub(c, v) == Map1(LAMBDA x : RSub(c, x), v)
VAddScalar(v, c) == Map1(LAMBDA x : RAdd(x, c), v)

\* Op folded over the elements of a non-empty array, left to right.
Fold(Op(_, _), v0) ==
    Strict1(LAMBDA v : LET acc[k \in 1..Len(v)] == IF k = 1 THEN v[1] ELSE Op(acc[k - 1], v[k])
                       IN  acc[Len(v)], v0)

RSum(v) == Fold(RAdd, <<R0>> \o v)
VMin(v) == Fold(RMin, v)
VMax(v) == Fold(RMax, v)

Const(n, x) == [i \in 1..n |-> x] \o <<>>

\* np.matmul of two vectors of equal length.
Dot(w0, v0) == Strict2(LAMBDA w, v : RSum([i \in 1..Len(w) |-> RMul(w[i], v[i])] \o <<>>), w0, v0)

\* np.clip(v, lo, hi), elementwise.
clip(v, lo, hi) == Map1(LAMBDA x : RMin(RMax(x, lo), hi), v)

(***************************************************************************)
(* The methods of Individual as functions of the fields they read.         *)
(***************************************************************************)
\* Shape of 0.7*a - 0.2*b - 0.1*c.
TAShape(a, b, c) == BShape(BShape(Len(a), Len(b)), Len(c))

TA_of(a, b, c) ==
    VSub(VSub(VScale(Rat(7, 10), a), VScale(Rat(2, 10), b)),
         VScale(Rat(1, 10), c))

Square(x) == Strict1(LAMBDA v : RMul(v, v), x)

calc_av_behaviour(att) ==
    Strict1(LAMBDA a : RDivInt(RSum(Map1(Square, VRSub(R1, a))), Len(a)), att)

\* Faulty variant: the newest value goes to the back and the front entry is dropped.
update_av_behaviour_list_back(lst, av) == Tail(lst) \o <<av>>

update_av_behaviour_list(lst, av) == <<av>> \o SubSeq(lst, 1, Len(lst) - 1)

\* Faulty variant: the discount weights are dropped.
calc_identity_unweighted(discount, lst) == RSum(lst)

calc_identity(discount, lst) == Dot(discount, lst)

\* Faulty variant: the new row goes to the back and the front row is dropped.
update_attitudes_matrix_back(att, matrix) == Tail(matrix) \o <<att>>

update_attitudes_matrix(att, matrix) ==
    <<att>> \o SubSeq(matrix, 1, Len(matrix) - 1)

Column(matrix, j) == [i \in 1..Len(matrix) |-> matrix[i][j]] \o <<>>

\* Faulty variant: the rows are summed without the discount weights.
calc_attitudes_star_unweighted(discount, matrix) ==
    [j \in 1..Len(matrix[1]) |-> RSum(Column(matrix, j))] \o <<>>

calc_attitudes_star(discount, matrix) ==
    [j \in 1..Len(matrix[1]) |-> Dot(discount, Column(matrix, j))] \o <<>>

ValuesShape(att, thr, a, b, c, ta, tb, tc) ==
    BShape(BShape(Len(att), Len(thr)), BShape(TAShape(a, b, c), TAShape(ta, tb, tc)))

\* Faulty variant: the step reuses the constructor's formula, without the TA term.
update_values_initial(att, thr, a, b, c, ta, tb, tc) == VSub(att, thr)

\* Faulty variant: the TA term is appended to the attitude term, not added.
update_values_append(att, thr, a, b, c, ta, tb, tc) ==
    VScale(Rat(1, 2), VSub(att, thr))
        \o VScale(Rat(1, 2), VSub(TA_of(a, b, c), TA_of(ta, tb, tc)))

update_values(att, thr, a, b, c, ta, tb, tc) ==
    VAdd(VScale(Rat(1, 2), VSub(att, thr)),
         VScale(Rat(1, 2), VSub(TA_of(a, b, c), TA_of(ta, tb, tc))))

\* Shape of (1 - phi)*old + phi*influence.
LearnShape(phi, old, influence) ==
    BShape(BShape(Len(phi), Len(old)), BShape(Len(phi), Len(influence)))

\* Faulty variant: the weights of the old state and of the influence are swapped.
social_learning_swapped(phi, old, influence) ==
    VAdd(VMul(phi, old), VMul(VRSub(R1, phi), influence))

\* Faulty variant: the old state keeps its full weight.
social_learning_additive(phi, old, influence) ==
    VAdd(old, VMul(phi, influence))

\* Faulty variant: the influence is subtracted.
social_learning_sign(phi, old, influence) ==
    VSub(VMul(VRSub(R1, phi), old), VMul(phi, influence))

\* The rule shared by update_attitudes, update_pU, update_pC and update_pR.
social_learning(phi, old, influence) ==
    VAdd(VMul(VRSub(R1, phi), old), VMul(phi, influence))

\* Faulty variant: the sum is not clipped.
update_thresholds_noclip(thr, delta) == VAdd(thr, delta)

update_thresholds(thr, delta) == clip(VAdd(thr, delta), R0, R1)

update_thresholdTA(thrp, delta) == clip(VAddScalar(thrp, delta), R0, R1)

\* Faulty variant: the sign of the value is lost.
behavioural_emissions_sign(vals, m) ==
    [i \in 1..m |-> RDivInt(RAdd(R1, vals[i]), 2)] \o <<>>

behavioural_emissions(vals, m) ==
    [i \in 1..m |-> RDivInt(RSub(R1, vals[i]), 2)] \o <<>>

\* <<sum(behavioural_emissions), behavioural_emissions>>
calc_total_emissions_flow(vals, m) ==
    Strict1(LAMBDA e : <<RSum(e), e>>, behavioural_emissions(vals, m))

(***************************************************************************)
(* State: the attributes of the Individual, then the bookkeeping of the    *)
(* model (whether the constructor returned, the exception the last call    *)
(* raised, the arguments of the last call, and the av_behaviour computed   *)
(* by the constructor and by every default-mode step so far).  rng_state   *)
(* is the state of the module-level generator rng: the number of values    *)
(* drawn from it since it was seeded.  peer is a second Individual of the  *)
(* same population (NoPeer when the agent is alone) and tick is the        *)
(* driver's position in the current simulation tick.                       *)
(***************************************************************************)
VARIABLES attitudes, initial_first_attitude, thresholds,
          normalized_discount_vector, cultural_inertia,
          pU, pC, pR, thresholdspU, thresholdspC, thresholdspR,
          M, t, save_timeseries_data, compression_factor, phi_array,
          alpha_change, id, green_fountain_state,
          attitudes_matrix, attitudes_star,
          values, av_behaviour, av_behaviour_list, identity,
          initial_carbon_emissions, behavioural_carbon_emissions,
          individual_carbon_emissions_flow,
          history_behaviour_values, history_behaviour_attitudes,
          history_behaviour_thresholds, history_TA, history_thresholdsTA,
          history_av_behaviour, history_identity,
          history_individual_carbon_emissions_flow,
          history_behavioural_carbon_emissions,
          obj, raised, steps, call, av_trace, shape_ok,
          rng_state, peer, tick

params == <<M, save_timeseries_data, compression_factor, phi_array,
            alpha_change, id, normalized_discount_vector, cultural_inertia,
            initial_first_attitude, green_fountain_state,
            initial_carbon_emissions>>

propensities == <<pU, pC, pR>>

thresholds_all == <<thresholds, thresholdspU, thresholdspC, thresholdspR>>

memory == <<attitudes_matrix, attitudes_star, av_behaviour,
            av_behaviour_list, identity>>

emissions == <<behavioural_carbon_emissions, individual_carbon_emissions_flow>>

histories == <<history_behaviour_values, history_behaviour_attitudes,
               history_behaviour_thresholds, history_TA,
               history_thresholdsTA, history_av_behaviour, history_identity,
               history_individual_carbon_emissions_flow,
               history_behavioural_carbon_emissions>>

bookkeeping == <<obj, raised, steps, call, av_trace, shape_ok>>

population == <<rng_state, peer, tick>>

vars == <<attitudes, values, t, params, propensities, thresholds_all,
          memory, emissions, histories, bookkeeping, population>>

\* The properties TA and thresholdsTA of the current state.
TA == TA_of(pU, pC, pR)

thresholdsTA == TA_of(thresholdspU, thresholdspC, thresholdspR)

BI == "behavioural_independence"

NoCall == [social_component |-> <<>>, TA_component |-> <<>>, noise |-> <<>>]

(***************************************************************************)
(* Individual.__init__.  When a statement of the constructor raises, no    *)
(* object comes into being: obj is FALSE and every attribute is empty.     *)
(***************************************************************************)
\* The exception the constructor raises on the arguments a, "none" if none.
\* a.init_data_attitudes etc. are the constructor's parameters; a.M, a.save,
\* a.cf, a.phi_array and a.alpha_change are the entries of individual_params.
init_raises(a) ==
    IF a.alpha_change = BI /\ Len(a.discount) # a.inertia THEN "ValueError"
    ELSE IF BShape(Len(a.attitudes), Len(a.thresholds)) = 0 THEN "ValueError"
    ELSE IF Len(a.discount) # a.inertia THEN "ValueError"
    ELSE IF BShape(Len(a.attitudes), Len(a.thresholds)) < a.M THEN "IndexError"
    ELSE IF a.save /\ (TAShape(a.pU, a.pC, a.pR) = 0
                       \/ TAShape(a.thresholdspU, a.thresholdspC, a.thresholdspR) = 0)
         THEN "ValueError"
    ELSE "none"

NoObject ==
    /\ attitudes = <<>> /\ initial_first_attitude = R0 /\ thresholds = <<>>
    /\ normalized_discount_vector = <<>> /\ cultural_inertia = 0
    /\ pU = <<>> /\ pC = <<>> /\ pR = <<>>
    /\ thresholdspU = <<>> /\ thresholdspC = <<>> /\ thresholdspR = <<>>
    /\ M = 0 /\ t = 0 /\ save_timeseries_data = FALSE
    /\ compression_factor = 1 /\ phi_array = <<>> /\ alpha_change = ""
    /\ id = 0 /\ green_fountain_state = 0
    /\ attitudes_matrix = <<>> /\ attitudes_star = <<>>
    /\ values = <<>> /\ av_behaviour = R0 /\ av_behaviour_list = <<>>
    /\ identity = R0 /\ initial_carbon_emissions = R0
    /\ behavioural_carbon_emissions = <<>>
    /\ individual_carbon_emissions_flow = R0
    /\ history_behaviour_values = <<>> /\ history_behaviour_attitudes = <<>>
    /\ history_behaviour_thresholds = <<>> /\ history_TA = <<>>
    /\ history_thresholdsTA = <<>> /\ history_av_behaviour = <<>>
    /\ history_identity = <<>>
    /\ history_individual_carbon_emissions_flow = <<>>
    /\ history_behavioural_carbon_emissions = <<>>
    /\ av_trace = <<>>

Constructed(a) ==
    LET vals == VSub(a.attitudes, a.thresholds)
        av == calc_av_behaviour(a.attitudes)
        lst == Const(a.inertia, av)
        em == calc_total_emissions_flow(vals, a.M)
        matrix == Const(a.inertia, a.attitudes)
        bi == a.alpha_change = BI
    IN  /\ attitudes = a.attitudes
        /\ initial_first_attitude = a.attitudes[1]
        /\ thresholds = a.thresholds
        /\ normalized_discount_vector = a.discount
        /\ cultural_inertia = a.inertia
        /\ pU = a.pU /\ pC = a.pC /\ pR = a.pR
        /\ thresholdspU = a.thresholdspU
        /\ thresholdspC = a.thresholdspC
        /\ thresholdspR = a.thresholdspR
        /\ M = a.M /\ t = 0 /\ save_timeseries_data = a.save
        /\ compression_factor = a.cf /\ phi_array = a.phi_array
        /\ alpha_change = a.alpha_change
        /\ id = a.id /\ green_fountain_state = 0
        /\ attitudes_matrix = IF bi THEN matrix ELSE <<>>
        /\ attitudes_star =
              IF bi THEN calc_attitudes_star(a.discount, matrix) ELSE <<>>
        /\ values = vals
        /\ av_behaviour = av
        /\ av_behaviour_list = lst
        /\ identity = calc_identity(a.discount, lst)
        /\ initial_carbon_emissions = em[1]
        /\ behavioural_carbon_emissions = em[2]
        /\ individual_carbon_emissions_flow = em[1]
        /\ history_behaviour_values = IF a.save THEN <<vals>> ELSE <<>>
        /\ history_behaviour_attitudes = IF a.save THEN <<a.attitudes>> ELSE <<>>
        /\ history_behaviour_thresholds = IF a.save THEN <<a.thresholds>> ELSE <<>>
        /\ history_TA = IF a.save THEN <<TA_of(a.pU, a.pC, a.pR)>> ELSE <<>>
        /\ history_thresholdsTA =
              IF a.save
              THEN <<TA_of(a.thresholdspU, a.thresholdspC, a.thresholdspR)>>
              ELSE <<>>
        /\ history_av_behaviour = IF a.save THEN <<av>> ELSE <<>>
        /\ history_identity =
              IF a.save THEN <<calc_identity(a.discount, lst)>> ELSE <<>>
        /\ history_individual_carbon_emissions_flow =
              IF a.save THEN <<em[1]>> ELSE <<>>
        /\ history_behavioural_carbon_emissions =
              IF a.save THEN <<em[2]>> ELSE <<>>
        /\ av_trace = <<av>>

AllLen(m, seqs) == \A i \in 1..Len(seqs) : Len(seqs[i]) = m

\* Individual(...) called with the arguments a.
__init__(a) ==
    /\ raised = init_raises(a)
    /\ obj = (init_raises(a) = "none")
    /\ steps = 0
    /\ call = NoCall
    /\ shape_ok = AllLen(a.M, <<a.attitudes, a.thresholds>>)
    /\ IF init_raises(a) = "none" THEN Constructed(a) ELSE NoObject

(***************************************************************************)
(* Individual.next_step(t, social_component, TA_component).  noise is the  *)
(* sequence of values the two rng.normal calls of a default-mode step      *)
(* return: len(thresholds) draws for update_thresholds, then the three of  *)
(* update_thresholdTA.  The statements are numbered; failAt is the first   *)
(* one that raises (NoFail when none does), and a statement takes effect   *)
(* exactly when failAt lies beyond it.                                     *)
(***************************************************************************)
S_values == 1
S_attitudes == 2
S_pU == 3
S_pC == 4
S_pR == 5
S_mode == 6
S_emissions == 7
S_save == 8
NoFail == S_save + 1

\* Faulty variant: the new entry is inserted at the front of the log.
AppendIf_front(h, x, cond) == IF cond THEN <<x>> \o h ELSE h

AppendIf(h, x, cond) == IF cond THEN Append(h, x) ELSE h

\* Faulty variant: the mode name is misspelt in the test of next_step.
independent_misspelt(mode) == mode = "behavioral_independence"

\* The test of line 359: whether a step takes the branch of lines 360-361.
independent(mode) == mode = BI

\* Faulty variant: the thresholds are also drawn in behavioural_independence mode.
draws_always(mode, n) == n + 3

\* The number of values a step draws from rng: n = len(thresholds) in
\* update_thresholds and 3 in update_thresholdTA, in the default branch only.
draws(mode, n) == IF independent(mode) THEN 0 ELSE n + 3

\* The first statement of next_step that raises, given the results v1 of
\* update_values and a1, p1 = <<pU1, pC1, pR1>> of the social-learning updates.
first_failure(tt, social_component, TA_component, v1, a1, p1) ==
    IF ValuesShape(attitudes, thresholds, pU, pC, pR, thresholdspU, thresholdspC, thresholdspR) = 0
    THEN S_values
    ELSE IF LearnShape(phi_array, attitudes, social_component) = 0
    THEN S_attitudes
    ELSE IF LearnShape(phi_array, pU, TA_component[1]) = 0 THEN S_pU
    ELSE IF LearnShape(phi_array, pC, TA_component[2]) = 0 THEN S_pC
    ELSE IF LearnShape(phi_array, pR, TA_component[3]) = 0 THEN S_pR
    ELSE IF independent(alpha_change) /\ Len(a1) # Len(attitudes_matrix[1]) THEN S_mode
    ELSE IF Len(v1) < M THEN S_emissions
    ELSE IF save_timeseries_data /\ tt % compression_factor = 0
            /\ TAShape(p1[1], p1[2], p1[3]) = 0
    THEN S_save
    ELSE NoFail

\* Faulty variant: update_attitudes also overwrites phi_array with 1 - phi_array.
Unassigned_phi ==
    /\ phi_array' = VRSub(R1, phi_array)
    /\ UNCHANGED <<history_thresholdsTA, M, save_timeseries_data,
                   compression_factor, alpha_change, id,
                   normalized_discount_vector, cultural_inertia,
                   initial_first_attitude, green_fountain_state,
                   initial_carbon_emissions, obj, peer>>

\* The attributes that no statement of next_step or of the methods it calls
\* assigns or mutates in place; among them every attribute of another
\* Individual.
Unassigned == UNCHANGED <<history_thresholdsTA, params, obj, peer>>

next_step(tt, social_component, TA_component, noise) ==
    /\ obj
    /\ steps < MaxSteps
    /\ \E v1 \in {update_values(attitudes, thresholds, pU, pC, pR, thresholdspU, thresholdspC, thresholdspR)},
          a1 \in {social_learning(phi_array, attitudes, social_component)},
          pU1 \in {social_learning(phi_array, pU, TA_component[1])},
          pC1 \in {social_learning(phi_array, pC, TA_component[2])},
          pR1 \in {social_learning(phi_array, pR, TA_component[3])} :
       \E failAt \in {first_failure(tt, social_component, TA_component, v1, a1, <<pU1, pC1, pR1>>)} :
       \E av1 \in {IF failAt > S_mode THEN calc_av_behaviour(a1) ELSE R0} :
       LET bi == independent(alpha_change)
           matrix1 == update_attitudes_matrix(a1, attitudes_matrix)
           n == Len(thresholds)
           thr1 == update_thresholds(thresholds, SubSeq(noise, 1, n))
           lst1 == update_av_behaviour_list(av_behaviour_list, av1)
           em1 == calc_total_emissions_flow(v1, M)
           saving == save_timeseries_data /\ tt % compression_factor = 0
           default_done == ~bi /\ failAt > S_mode
           bi_done == bi /\ failAt > S_mode
           saved == saving /\ failAt > S_save
       IN  /\ steps' = steps + 1
           /\ call' = [social_component |-> social_component,
                       TA_component |-> TA_component, noise |-> noise]
           /\ shape_ok' = AllLen(M, <<social_component>> \o TA_component)
           /\ raised' = IF failAt = NoFail THEN "none"
                        ELSE IF failAt = S_emissions THEN "IndexError"
                        ELSE "ValueError"
           /\ t' = tt
           /\ values' = IF failAt > S_values THEN v1 ELSE values
           /\ attitudes' = IF failAt > S_attitudes THEN a1 ELSE attitudes
           /\ pU' = IF failAt > S_pU THEN pU1 ELSE pU
           /\ pC' = IF failAt > S_pC THEN pC1 ELSE pC
           /\ pR' = IF failAt > S_pR THEN pR1 ELSE pR
           /\ attitudes_matrix' = IF bi_done THEN matrix1 ELSE attitudes_matrix
           /\ attitudes_star' =
                 IF bi_done
                 THEN calc_attitudes_star(normalized_discount_vector, matrix1)
                 ELSE attitudes_star
           /\ thresholds' = IF default_done THEN thr1 ELSE thresholds
           /\ thresholdspU' =
                 IF default_done THEN update_thresholdTA(thresholdspU, noise[n + 1])
                 ELSE thresholdspU
           /\ thresholdspC' =
                 IF default_done THEN update_thresholdTA(thresholdspC, noise[n + 2])
                 ELSE thresholdspC
           /\ thresholdspR' =
                 IF default_done THEN update_thresholdTA(thresholdspR, noise[n + 3])
                 ELSE thresholdspR
           /\ av_behaviour' = IF default_done THEN av1 ELSE av_behaviour
           /\ av_behaviour_list' = IF default_done THEN lst1 ELSE av_behaviour_list
           /\ identity' =
                 IF default_done
                 THEN calc_identity(normalized_discount_vector, lst1)
                 ELSE identity
           /\ av_trace' = IF default_done THEN Append(av_trace, av1) ELSE av_trace
           /\ rng_state' = IF failAt > S_mode
                            THEN rng_state + draws(alpha_change, n) ELSE rng_state
           /\ individual_carbon_emissions_flow' =
                 IF failAt > S_emissions THEN em1[1]
                 ELSE individual_carbon_emissions_flow
           /\ behavioural_carbon_emissions' =
                 IF failAt > S_emissions THEN em1[2]
                 ELSE behavioural_carbon_emissions
           /\ history_behaviour_values' =
                 AppendIf(history_behaviour_values, values', saving /\ failAt >= S_save)
           /\ history_behaviour_attitudes' =
                 AppendIf(history_behaviour_attitudes, attitudes', saving /\ failAt >= S_save)
           /\ history_behaviour_thresholds' =
                 AppendIf(history_behaviour_thresholds, thresholds', saving /\ failAt >= S_save)
           /\ history_TA' = AppendIf(history_TA, TA', saved)
           /\ history_identity' = AppendIf(history_identity, identity', saved)
           /\ history_av_behaviour' =
                 AppendIf(history_av_behaviour, av_behaviour', saved)
           /\ history_individual_carbon_emissions_flow' =
                 AppendIf(history_individual_carbon_emissions_flow,
                         individual_carbon_emissions_flow', saved)
           /\ history_behavioural_carbon_emissions' =
                 AppendIf(history_behavioural_carbon_emissions,
                         behavioural_carbon_emissions', saved)
           /\ Unassigned

(***************************************************************************)
(* The inputs: what the caller passes to the constructor and to each step. *)
(***************************************************************************)
Alt(n, x, y) == [i \in 1..n |-> IF i % 2 = 1 THEN x ELSE y] \o <<>>

Modes == {BI, "default"}

CompressionFactors == {1, 2}

\* <<save_timeseries_data, compression_factor>>
Telemetry == {<<FALSE, 1>>} \cup {<<TRUE, cf>> : cf \in CompressionFactors}

\* Susceptibilities in [0,1]: all 0, all 1, and 1/2 mixed with 0.
PhiArrays(n) == {Const(n, R0), Const(n, R1), Alt(n, Rat(1, 2), R0)}

\* <<init_data_attitudes, init_data_pU, init_data_pC, init_data_pR>>
State0(n) ==
    {<<Const(n, Rat(-1, 1)), Const(n, R0), Const(n, R1), Const(n, R1)>>,
     <<Alt(n, Rat(1, 2), R1), Const(n, R1), Const(n, R0), Alt(n, R0, R1)>>}

\* <<init_data_thresholds, init_data_thresholdspU, ...pC, ...pR>>
Thresholds0(n) ==
    {<<Const(n, R1), Const(n, R1), Const(n, R0), Const(n, R0)>>,
     <<Alt(n, R0, Rat(1, 2)), Const(n, Rat(1, 2)), Const(n, R1), Const(n, R1)>>}

\* Non-negative weights that sum to 1: most weight on the most recent
\* entry, and all weight on the oldest one.
Discounts(n) ==
    {IF n = 1 THEN <<R1>>
     ELSE [i \in 1..n |-> IF i = 1 THEN Rat(3, 4) ELSE Rat(1, 4 * (n - 1))] \o <<>>,
     [i \in 1..n |-> IF i = n THEN R1 ELSE R0] \o <<>>}

\* <<social_component, TA_component>> as the driver computes them for a tick.
Influences(n) ==
    {<<Const(n, R1), <<Const(n, R1), Alt(n, R1, R0), Const(n, R1)>>>>,
     <<Alt(n, Rat(-1, 1), Rat(1, 2)), <<Const(n, R0), Const(n, R0), Const(n, R0)>>>>}

\* The draws of rng.normal: either sign, small and large against [0,1].
NoiseDraws(n) ==
    {Alt(n, Rat(3, 2), Rat(-1, 4)), Alt(n, Rat(-3, 2), Rat(1, 4))}

Args(m, tele, mode, inertia, phi, s0, thr0, discount) ==
    [M |-> m, save |-> tele[1], cf |-> tele[2], phi_array |-> phi,
     alpha_change |-> mode, attitudes |-> s0[1], thresholds |-> thr0[1],
     discount |-> discount, inertia |-> inertia,
     pU |-> s0[2], pC |-> s0[3], pR |-> s0[4],
     thresholdspU |-> thr0[2], thresholdspC |-> thr0[3], thresholdspR |-> thr0[4],
     id |-> 0]

NoPeer == [M |-> 0]

NoTick == [n |-> 0]

\* A freshly seeded generator and a single agent, stepped outside any tick.
Alone == rng_state = 0 /\ peer = NoPeer /\ tick = NoTick

Init ==
    /\ Alone
    /\ \E m \in 1..MaxM, inertia \in 1..MaxInertia, mode \in Modes, tele \in Telemetry :
        \E phi \in PhiArrays(m), s0 \in State0(m), thr0 \in Thresholds0(m), discount \in Discounts(inertia) :
            __init__(Args(m, tele, mode, inertia, phi, s0, thr0, discount))

\* The rng draws a step consumes: none in behavioural_independence mode.
Draws == IF independent(alpha_change) THEN {<<>>} ELSE NoiseDraws(Len(thresholds) + 3)

\* The driver calls next_step once per tick with the next time index.
Next ==
    /\ \E influence \in Influences(M), noise \in Draws :
          next_step(t + 1, influence[1], influence[2], noise)
    /\ UNCHANGED tick

Spec == Init /\ [][Next]_vars

(***************************************************************************)
(* An Individual as a value: the record of the attributes next_step reads  *)
(* or assigns, for an agent built with save_timeseries_data False (such an *)
(* agent has no history logs).  step is next_step on these records, for    *)
(* inputs of length M, one stage per group of statements.                  *)
(***************************************************************************)
\* The agent held in the variables, as a record.
Self ==
    [M |-> M, t |-> t, phi_array |-> phi_array, alpha_change |-> alpha_change,
     normalized_discount_vector |-> normalized_discount_vector,
     attitudes |-> attitudes, thresholds |-> thresholds,
     pU |-> pU, pC |-> pC, pR |-> pR,
     thresholdspU |-> thresholdspU, thresholdspC |-> thresholdspC,
     thresholdspR |-> thresholdspR,
     attitudes_matrix |-> attitudes_matrix, attitudes_star |-> attitudes_star,
     values |-> values, av_behaviour |-> av_behaviour,
     av_behaviour_list |-> av_behaviour_list, identity |-> identity,
     behavioural_carbon_emissions |-> behavioural_carbon_emissions,
     individual_carbon_emissions_flow |-> individual_carbon_emissions_flow]

\* Individual(...) called with the arguments a, as a record.
new_individual(a) ==
    LET vals == VSub(a.attitudes, a.thresholds)
        av == calc_av_behaviour(a.attitudes)
        lst == Const(a.inertia, av)
        em == calc_total_emissions_flow(vals, a.M)
        matrix == Const(a.inertia, a.attitudes)
        bi == a.alpha_change = BI
    IN  [M |-> a.M, t |-> 0, phi_array |-> a.phi_array,
         alpha_change |-> a.alpha_change,
         normalized_discount_vector |-> a.discount,
         attitudes |-> a.attitudes, thresholds |-> a.thresholds,
         pU |-> a.pU, pC |-> a.pC, pR |-> a.pR,
         thresholdspU |-> a.thresholdspU, thresholdspC |-> a.thresholdspC,
         thresholdspR |-> a.thresholdspR,
         attitudes_matrix |-> IF bi THEN matrix ELSE <<>>,
         attitudes_star |->
            IF bi THEN calc_attitudes_star(a.discount, matrix) ELSE <<>>,
         values |-> vals, av_behaviour |-> av, av_behaviour_list |-> lst,
         identity |-> calc_identity(a.discount, lst),
         behavioural_carbon_emissions |-> em[2],
         individual_carbon_emissions_flow |-> em[1]]

\* Line 352.
step_values(s0) ==
    Strict1(LAMBDA s :
        [s EXCEPT !.values =
            update_values(s.attitudes, s.thresholds, s.pU, s.pC, s.pR,
                          s.thresholdspU, s.thresholdspC, s.thresholdspR)], s0)

\* Lines 353-356.
step_learning(s0, social_component, TA_component) ==
    Strict1(LAMBDA s :
        [s EXCEPT !.attitudes = social_learning(s.phi_array, s.attitudes, social_component),
                  !.pU = social_learning(s.phi_array, s.pU, TA_component[1]),
                  !.pC = social_learning(s.phi_array, s.pC, TA_component[2]),
                  !.pR = social_learning(s.phi_array, s.pR, TA_component[3])], s0)

\* Lines 360-361.
step_independent(s0) ==
    Strict1(LAMBDA s :
        Strict1(LAMBDA matrix1 :
            [s EXCEPT !.attitudes_matrix = matrix1,
                      !.attitudes_star =
                          calc_attitudes_star(s.normalized_discount_vector, matrix1)],
            update_attitudes_matrix(s.attitudes, s.attitudes_matrix)), s0)

\* Lines 363-367; noise holds the values of the two rng.normal calls.
step_default(s0, noise) ==
    Strict1(LAMBDA s :
        Strict1(LAMBDA lst1 :
            [s EXCEPT !.thresholds =
                          update_thresholds(s.thresholds, SubSeq(noise, 1, Len(s.thresholds))),
                      !.thresholdspU =
                          update_thresholdTA(s.thresholdspU, noise[Len(s.thresholds) + 1]),
                      !.thresholdspC =
                          update_thresholdTA(s.thresholdspC, noise[Len(s.thresholds) + 2]),
                      !.thresholdspR =
                          update_thresholdTA(s.thresholdspR, noise[Len(s.thresholds) + 3]),
                      !.av_behaviour = lst1[1],
                      !.av_behaviour_list = lst1,
                      !.identity = calc_identity(s.normalized_discount_vector, lst1)],
            update_av_behaviour_list(s.av_behaviour_list, calc_av_behaviour(s.attitudes))), s0)

\* Lines 359-367.
step_mode(s, noise) ==
    IF independent(s.alpha_change) THEN step_independent(s) ELSE step_default(s, noise)

\* Line 369.
step_emissions(s0) ==
    Strict1(LAMBDA s :
        Strict1(LAMBDA em :
            [s EXCEPT !.individual_carbon_emissions_flow = em[1],
                      !.behavioural_carbon_emissions = em[2]],
            calc_total_emissions_flow(s.values, s.M)), s0)

\* Faulty variant: update_values runs after the attitudes and thresholds
\* have been updated.
step_late_values(s, tt, social_component, TA_component, noise) ==
    step_emissions(step_values(
        step_mode(step_learning([s EXCEPT !.t = tt], social_component, TA_component), noise)))

\* next_step(tt, social_component, TA_component) on the record s.
step(s, tt, social_component, TA_component, noise) ==
    step_emissions(step_mode(
        step_learning(step_values([s EXCEPT !.t = tt]), social_component, TA_component), noise))

(***************************************************************************)
(* Two Individuals of one population and the generator they share.  The    *)
(* driver works in ticks: it computes the inputs of both agents from the   *)
(* state the previous tick has left, then calls next_step of each agent    *)
(* once, in either order.                                                   *)
(***************************************************************************)
MaxTicks == 2

\* The k-th value (from 1) that rng returns after seeding: distinct values,
\* of either sign.
normal(k) == Rat((IF (k - 1) % 4 < 2 THEN k ELSE -k), 100)

\* rng.normal(size = size) called when pos values have been drawn.
rng_normal(pos, size) == [i \in 1..size |-> normal(pos + i)] \o <<>>

Agents == {"self", "peer"}

Other(x) == IF x = "self" THEN "peer" ELSE "self"

Agent(x) == IF x = "self" THEN Self ELSE peer

IdleTick ==
    [n |-> 0, pending |-> {}, order |-> <<>>, rng_state |-> 0,
     before |-> <<>>, inputs |-> <<>>, drawn |-> <<>>]

\* The driver starts tick n + 1: it fixes the inputs of both agents, which
\* differ from each other.
NewTick ==
    /\ obj
    /\ tick.pending = {}
    /\ tick.n < MaxTicks
    /\ \E own \in Influences(M) : \E other \in Influences(M) \ {own} :
          tick' = [n |-> tick.n + 1, pending |-> Agents, order |-> <<>>,
                   rng_state |-> rng_state,
                   before |-> [x \in Agents |-> Agent(x)],
                   inputs |-> [x \in Agents |-> IF x = "self" THEN own ELSE other],
                   drawn |-> [x \in Agents |-> <<>>]]
    /\ UNCHANGED <<attitudes, values, t, params, propensities, thresholds_all,
                   memory, emissions, histories, bookkeeping, rng_state, peer>>

Stepped(x, noise) ==
    [tick EXCEPT !.pending = @ \ {x}, !.order = Append(@, x), !.drawn[x] = noise]

\* The driver calls next_step of the agent held in the variables.
StepSelf ==
    /\ "self" \in tick.pending
    /\ \E noise \in {rng_normal(rng_state, draws(alpha_change, Len(thresholds)))} :
          /\ next_step(tick.n, tick.inputs["self"][1], tick.inputs["self"][2], noise)
          /\ tick' = Stepped("self", noise)

\* The driver calls next_step of the other agent.
StepPeer ==
    /\ "peer" \in tick.pending
    /\ \E noise \in {rng_normal(rng_state, draws(peer.alpha_change, Len(peer.thresholds)))} :
          /\ peer' = step(peer, tick.n, tick.inputs["peer"][1], tick.inputs["peer"][2], noise)
          /\ rng_state' = rng_state + Len(noise)
          /\ tick' = Stepped("peer", noise)
    /\ UNCHANGED <<attitudes, values, t, params, propensities, thresholds_all,
                   memory, emissions, histories, bookkeeping>>

\* The discount vector of Discounts(n) whose first weight is not 0.
FrontLoaded(n) == CHOOSE d \in Discounts(n) : d[1] # R0

\* Both agents have M behaviours and the same cultural_inertia, phi_array and
\* discount vector; each has its own mode, its own initial attitudes and
\* propensities, and its own thresholds.
InitTick ==
    /\ rng_state = 0
    /\ tick = IdleTick
    /\ \E m \in 1..MaxM, inertia \in 1..MaxInertia, mode \in Modes, peer_mode \in Modes :
        \E s0 \in State0(m), thr0 \in Thresholds0(m), peer_thr0 \in Thresholds0(m) :
          \E peer_s0 \in State0(m) \ {s0} :
            /\ __init__(Args(m, <<TRUE, 1>>, mode, inertia, Alt(m, Rat(1, 2), R0),
                             s0, thr0, FrontLoaded(inertia)))
            /\ peer = new_individual(Args(m, <<FALSE, 1>>, peer_mode, inertia,
                                          Alt(m, Rat(1, 2), R0), peer_s0, peer_thr0,
                                          FrontLoaded(inertia)))

NextTick == NewTick \/ StepSelf \/ StepPeer

SpecTick == InitTick /\ [][NextTick]_vars

(***************************************************************************)
(* Properties.                                                             *)
(***************************************************************************)
Default == obj /\ alpha_change = "default"

AllZero(v) == \A i \in 1..Len(v) : v[i] = R0

AllOne(v) == \A i \in 1..Len(v) : v[i] = R1

AllIn(v, lo, hi) == \A i \in 1..Len(v) : RBetween(v[i], lo, hi)

C2_WindowOrder ==
    Default =>
        /\ Len(av_behaviour_list) = cultural_inertia
        /\ Len(av_trace) = steps + 1
        /\ \A j \in 0..(cultural_inertia - 1) :
              av_behaviour_list[j + 1] =
                 IF j < steps THEN av_trace[1 + steps - j] ELSE av_trace[1]

\* A window of two entries after at least two steps, holding the values of
\* the last two steps in order, both different from the bootstrap value.
C2_Witness ==
    /\ Default /\ cultural_inertia >= 2 /\ steps >= cultural_inertia
    /\ av_behaviour_list[1] # av_behaviour_list[2]
    /\ \A j \in 1..cultural_inertia : av_behaviour_list[j] # av_trace[1]
    /\ av_behaviour_list[1] = av_trace[steps + 1]

C3_ThresholdsClipped ==
    (Default /\ steps >= 1) =>
        /\ AllIn(thresholds, R0, R1)
        /\ AllIn(thresholdspU, R0, R1)
        /\ AllIn(thresholdspC, R0, R1)
        /\ AllIn(thresholdspR, R0, R1)

\* A step from thresholds outside [0,1] with a draw larger than 1 in
\* magnitude has left thresholds on both borders or inside.
C3_Witness ==
    /\ Default /\ steps >= 1
    /\ ~AllIn(history_behaviour_thresholds[1], R0, R1)
    /\ call.noise[1] = Rat(3, 2)
    /\ thresholds[1] = R1
    /\ \E i \in 1..Len(thresholdspR) : thresholdspR[i] \notin {R0, R1}

\* C5 (as claimed): with all inputs in their documented domains, every
\* element of values lies in [-1,1], every behavioural emission in [0,1] and
\* the total emissions in [0, M], in every reachable state.
C5_ValuesInDomain ==
    obj =>
        /\ AllIn(values, Rat(-1, 1), R1)
        /\ AllIn(behavioural_carbon_emissions, R0, R1)
        /\ RBetween(individual_carbon_emissions_flow, R0, <<M, 1>>)

\* C7 (as claimed): with telemetry enabled all history logs have the same
\* length in every reachable state.
C7_LogsSameLength ==
    (obj /\ save_timeseries_data) =>
        \A i \in 1..Len(histories) :
            Len(histories[i]) = Len(history_behaviour_values)

\* C8: when phi_array is all-zero, a step leaves attitudes, pU, pC and pR
\* equal to their values before the step, in both modes.
C8_ZeroPhiKeepsState ==
    [][(obj /\ AllZero(phi_array)) =>
          (attitudes' = attitudes /\ pU' = pU /\ pC' = pC /\ pR' = pR)]_vars

\* Two steps with phi_array all-zero, the last with influences that differ
\* from the state.
C8_Witness ==
    /\ obj /\ AllZero(phi_array) /\ steps >= 2
    /\ call.social_component # attitudes
    /\ call.TA_component[1] # pU

\* C9: when phi_array is all-one, after a step attitudes equals the
\* social_component of that step and pU, pC, pR equal its TA_component
\* entries, in both modes.
C9_OnePhiReplacesState ==
    (obj /\ steps >= 1 /\ AllOne(phi_array)) =>
        /\ attitudes = call.social_component
        /\ pU = call.TA_component[1]
        /\ pC = call.TA_component[2]
        /\ pR = call.TA_component[3]

\* A step with phi_array all-one has replaced the initial attitudes.
C9_Witness ==
    /\ obj /\ steps >= 1 /\ AllOne(phi_array)
    /\ attitudes[1] # initial_first_attitude
    /\ M >= 2

Hull(new, old, influence) ==
    \A i \in 1..Len(new) :
        RBetween(new[i], RMin(old[i], influence[i]), RMax(old[i], influence[i]))

C11_LengthsEqualM ==
    obj =>
        /\ Len(values) = M
        /\ Len(attitudes) = M
        /\ Len(thresholds) = M
        /\ Len(phi_array) = M

\* Two steps of an agent with two behaviours have replaced its values and
\* its attitudes.
C11_Witness ==
    /\ obj /\ steps >= 2 /\ M >= 2
    /\ Len(values) = 2 /\ Len(attitudes) = 2
    /\ attitudes[1] # initial_first_attitude
    /\ values[1] # values[2]

\* C12: no step changes alpha_change, id, M, phi_array,
\* normalized_discount_vector or cultural_inertia, so every step of an agent
\* takes the same branch: all of its steps have computed av_behaviour
\* (default mode) or none has (behavioural_independence mode).
C12_ParametersFixed ==
    /\ [][obj => UNCHANGED <<alpha_change, id, M, phi_array,
                             normalized_discount_vector, cultural_inertia>>]_vars
    /\ [](obj => Len(av_trace) = IF alpha_change = BI THEN 1 ELSE steps + 1)

\* Two steps of a behavioural_independence agent have pushed two different
\* rows into its attitudes_matrix.
C12_Witness ==
    /\ obj /\ steps >= 2 /\ alpha_change = BI /\ cultural_inertia >= 2
    /\ attitudes_matrix[1] # attitudes_matrix[2]
    /\ \E i \in 1..M : phi_array[i] \notin {R0, R1}

\* 0.5*(attitudes - thresholds) + 0.5*(TA - thresholdsTA) of the current state.
Blend ==
    Map2(LAMBDA x, y : RAdd(RDivInt(x, 2), RDivInt(y, 2)),
         VSub(attitudes, thresholds), VSub(TA, thresholdsTA))

\* C13: the values stored by a step are 0.5*(attitudes - thresholds) +
\* 0.5*(TA - thresholdsTA) of the state before the step, whatever the step's
\* social_component, TA_component and noise, and the emissions stored by the
\* step are (1 - v)/2 of these values.
C13_ValuesFromPreviousState ==
    [][obj =>
          \A blend \in {Blend} :
              /\ values' = blend
              /\ behavioural_carbon_emissions' =
                     [i \in 1..M |-> RDivInt(RSub(R1, blend[i]), 2)] \o <<>>]_vars

\* A step has changed attitudes and thresholds: the stored values and
\* emissions are not those of the state the step has left.
C13_Witness ==
    /\ Default /\ steps >= 1
    /\ attitudes[1] # initial_first_attitude
    /\ values # Blend
    /\ behavioural_carbon_emissions[1] # RDivInt(RSub(R1, Blend[1]), 2)

\* C14: in behavioural_independence mode a step leaves identity,
\* av_behaviour, av_behaviour_list, thresholds, thresholdspU, thresholdspC
\* and thresholdspR unchanged, so av_behaviour and every entry of
\* av_behaviour_list stay the value the constructor computed.
C14_IndependenceFrame ==
    /\ [][(obj /\ alpha_change = BI) =>
             UNCHANGED <<identity, av_behaviour, av_behaviour_list, thresholds,
                         thresholdspU, thresholdspC, thresholdspR>>]_vars
    /\ []((obj /\ alpha_change = BI) =>
             /\ av_behaviour = av_trace[1]
             /\ av_behaviour_list = Const(cultural_inertia, av_trace[1])
             /\ save_timeseries_data =>
                    /\ thresholds = history_behaviour_thresholds[1]
                    /\ identity = history_identity[1])

\* Two steps of a behavioural_independence agent have moved its attitudes,
\* so that av_behaviour is no longer the mean of (1 - attitudes)^2.
C14_Witness ==
    /\ obj /\ alpha_change = BI /\ steps >= 2
    /\ attitudes[1] # initial_first_attitude
    /\ av_behaviour # calc_av_behaviour(attitudes)
    /\ \E i \in 1..Len(thresholds) : thresholds[i] \notin {R0, R1}

\* C15: in behavioural_independence mode every step keeps attitudes_matrix
\* at cultural_inertia rows of M entries, makes row 0 the attitudes the step
\* has computed and row j the former row j-1 (the oldest row is dropped), and
\* sets attitudes_star[i] to the sum over the rows j of discount[j] * row j[i];
\* so with every step logged, row j is the attitudes of step k-j for
\* j < min(k, cultural_inertia) and the initial attitudes otherwise: after
\* k >= cultural_inertia steps every row comes from a step.
C15_MatrixWindow ==
    /\ [][(obj /\ alpha_change = BI) =>
             /\ Len(attitudes_matrix') = cultural_inertia
             /\ \A j \in 1..cultural_inertia : Len(attitudes_matrix'[j]) = M
             /\ attitudes_matrix'[1] = attitudes'
             /\ \A j \in 2..cultural_inertia :
                   attitudes_matrix'[j] = attitudes_matrix[j - 1]
             /\ Len(attitudes_star') = M
             /\ \A i \in 1..M :
                   attitudes_star'[i] =
                      RSum([j \in 1..cultural_inertia |->
                               RMul(normalized_discount_vector[j],
                                    attitudes_matrix'[j][i])] \o <<>>)]_vars
    /\ []((obj /\ alpha_change = BI /\ save_timeseries_data
                /\ compression_factor = 1) =>
             \A j \in 0..(cultural_inertia - 1) :
                 attitudes_matrix[j + 1] =
                    history_behaviour_attitudes[IF j < steps THEN 1 + steps - j ELSE 1])

\* A matrix of at least two rows after at least as many steps: the rows
\* differ from each other and from the initial attitudes, and attitudes_star
\* differs from the current attitudes.
C15_Witness ==
    /\ obj /\ alpha_change = BI /\ save_timeseries_data /\ compression_factor = 1
    /\ cultural_inertia >= 2 /\ steps >= cultural_inertia /\ M >= 2
    /\ attitudes_matrix[1] # attitudes_matrix[2]
    /\ \A j \in 1..cultural_inertia :
          attitudes_matrix[j] # history_behaviour_attitudes[1]
    /\ attitudes_star # attitudes
    /\ attitudes_star # attitudes_matrix[cultural_inertia]

\* Both agents have made their step of the current tick.
TickDone == obj /\ tick.n >= 1 /\ tick.pending = {}

BothDefault == alpha_change = "default" /\ peer.alpha_change = "default"

\* The number of values agent x draws in a step, from the claim: M + 3 in
\* default mode and none in behavioural_independence mode.
Claimed(x) == IF tick.before[x].alpha_change = BI THEN 0 ELSE tick.before[x].M + 3

\* The values agent x would have drawn in this tick had the two calls been
\* made in the other order, and the state that step would have left.
SwappedDraws(x) ==
    rng_normal(IF tick.order[1] = x THEN tick.rng_state + Claimed(Other(x))
               ELSE tick.rng_state, Claimed(x))

Swapped(x) ==
    step(tick.before[x], tick.n, tick.inputs[x][1], tick.inputs[x][2], SwappedDraws(x))

ThresholdsOf(s) == <<s.thresholds, s.thresholdspU, s.thresholdspC, s.thresholdspR>>

\* before + draw clipped to [0,1], for the threshold array number k of an
\* agent with m behaviours that draws its values from position pos on.
Drifted(before, k, m, pos) ==
    [i \in 1..Len(before[k]) |->
        RMin(RMax(RAdd(before[k][i], normal(pos + IF k = 1 THEN i ELSE m + k - 1)), R0), R1)]

\* A step of agent s (s2 after it) from generator state pos to pos2 draws
\* nothing in behavioural_independence mode, and in default mode draws
\* M + 3 values: the first M drift thresholds, the next three thresholdspU,
\* thresholdspC and thresholdspR.
Consumes(s, s2, pos, pos2) ==
    IF s.alpha_change = BI
    THEN pos2 = pos /\ ThresholdsOf(s2) = ThresholdsOf(s)
    ELSE /\ pos2 = pos + s.M + 3
         /\ \A before \in {ThresholdsOf(s)}, after \in {ThresholdsOf(s2)} :
               \A k \in 1..4 : after[k] = Drifted(before, k, s.M, pos) \o <<>>

DrawOrder ==
    [][/\ steps' # steps => Consumes(Self, Self', rng_state, rng_state')
       /\ peer' # peer => Consumes(peer, peer', rng_state, rng_state')]_vars

\* In a finished tick the agent called first has received the first values
\* drawn in the tick and the agent called second the values after them.
DrawsFollowCalls ==
    TickDone =>
        /\ tick.drawn[tick.order[1]] = rng_normal(tick.rng_state, Claimed(tick.order[1]))
        /\ tick.drawn[tick.order[2]] =
              rng_normal(tick.rng_state + Claimed(tick.order[1]), Claimed(tick.order[2]))
        /\ rng_state = tick.rng_state + Claimed("self") + Claimed("peer")

\* C16 (as claimed): a default-mode step draws M + 3 values in the order
\* thresholds, thresholdspU, thresholdspC, thresholdspR and a
\* behavioural_independence step none; the agent called first in a tick
\* receives the first draws; and for two default-mode agents the other order
\* of the calls leaves different thresholds.
C16_SwapChangesThresholds ==
    /\ DrawOrder
    /\ []DrawsFollowCalls
    /\ []((TickDone /\ BothDefault) =>
             \E x \in Agents : ThresholdsOf(Agent(x)) # ThresholdsOf(Swapped(x)))

\* The two sums before + d1 and before + d2 are equal, or both at most 0, or
\* both at least 1.
SameAfterClip(before, d1, d2) ==
    \A a \in {RAdd(before, d1)}, b \in {RAdd(before, d2)} :
        \/ a = b
        \/ RLe(a, R0) /\ RLe(b, R0)
        \/ RLe(R1, a) /\ RLe(R1, b)

\* Every threshold entry that agent x holds after the tick differs from the
\* one the other order of the calls leaves exactly when its two sums are
\* not SameAfterClip.
SwapChanges(x) ==
    \A now \in {ThresholdsOf(Agent(x))}, other \in {ThresholdsOf(Swapped(x))},
       before \in {ThresholdsOf(tick.before[x])}, draw \in {SwappedDraws(x)} :
        \A k \in 1..4 : \A i \in 1..Len(now[k]) :
            LET j == IF k = 1 THEN i ELSE tick.before[x].M + k - 1
            IN  (now[k][i] = other[k][i])
                   <=> SameAfterClip(before[k][i], tick.drawn[x][j], draw[j])

\* C16 (amended): a default-mode step draws M + 3 values in the order
\* thresholds, thresholdspU, thresholdspC, thresholdspR and a
\* behavioural_independence step none; the agent called first in a tick
\* receives the first draws; and for two default-mode agents the other order
\* of the calls changes a threshold entry exactly when its two sums
\* entry + draw differ and are not both at most 0 or both at least 1.
C16_DrawOrderDecidesThresholds ==
    /\ DrawOrder
    /\ []DrawsFollowCalls
    /\ []((TickDone /\ BothDefault) => \A x \in Agents : SwapChanges(x))

\* Two default-mode agents after their second tick, the peer called first:
\* the other order would change a threshold of the agent and leave another
\* of its threshold arrays as it is.
C16_Witness ==
    /\ TickDone /\ BothDefault /\ tick.n >= 2
    /\ tick.order = <<"peer", "self">>
    /\ thresholds # Swapped("self").thresholds
    /\ \E k \in 2..4 : ThresholdsOf(Self)[k] = ThresholdsOf(Swapped("self"))[k]
    /\ ThresholdsOf(peer) # ThresholdsOf(Swapped("peer"))

\* The attributes of agent s that the claim lists.
Outcome(s) ==
    <<s.attitudes, s.pU, s.pC, s.pR, s.values, s.behavioural_carbon_emissions,
      s.individual_carbon_emissions_flow, s.av_behaviour, s.identity>>

\* C17: when both agents have made their step of a tick, each agent's
\* attitudes, pU, pC, pR, values, emissions, av_behaviour and identity are
\* those that the other order of the two calls leaves, in both modes, and no
\* call has raised; every call of next_step changes the agent as the step on
\* its state before the call alone prescribes.
C17_OrderIndependent ==
    /\ [][steps' # steps =>
             Self' = step(Self, t', call'.social_component, call'.TA_component,
                          call'.noise)]_vars
    /\ [](TickDone =>
             /\ raised = "none"
             /\ \A x \in Agents : Outcome(Agent(x)) = Outcome(Swapped(x)))

\* Two default-mode agents after their second tick, the agent called first:
\* the other order would change the thresholds of both, and both have moved
\* their attitudes and values in this tick.
C17_Witness ==
    /\ TickDone /\ BothDefault /\ tick.n >= 2 /\ M >= 2
    /\ tick.order = <<"self", "peer">>
    /\ \A x \in Agents :
          /\ ThresholdsOf(Agent(x)) # ThresholdsOf(Swapped(x))
          /\ Agent(x).attitudes # tick.before[x].attitudes
          /\ Agent(x).values # tick.before[x].values
          /\ Agent(x).identity # tick.before[x].identity

C19_LogsAppendOnly ==
    [][obj =>
          \A k \in 1..Len(histories) :
              /\ Len(histories'[k]) >= Len(histories[k])
              /\ SubSeq(histories'[k], 1, Len(histories[k])) = histories[k]]_vars

\* Three entries in the logs, taken at the construction and at two steps:
\* they differ from each other and the older ones from the live state.
C19_Witness ==
    /\ obj /\ save_timeseries_data /\ steps >= 2
    /\ Len(history_behaviour_attitudes) >= 3
    /\ history_behaviour_attitudes[1] # history_behaviour_attitudes[2]
    /\ history_behaviour_attitudes[2] # attitudes
    /\ history_behaviour_values[1] # history_behaviour_values[2]
    /\ history_behaviour_values[2] # values
    /\ history_behaviour_thresholds[1] # thresholds
    /\ history_behavioural_carbon_emissions[1] # behavioural_carbon_emissions

(***************************************************************************)
(* The same agent constructed with thresholds inside and outside [0,1].    *)
(***************************************************************************)
ThresholdsWide(n) ==
    Thresholds0(n) \cup
    {<<Alt(n, Rat(3, 1), Rat(-2, 1)), Const(n, Rat(-1, 1)), Const(n, Rat(2, 1)), Alt(n, Rat(1, 2), Rat(5, 1))>>}

InitWide ==
    /\ Alone
    /\ \E m \in 1..MaxM, inertia \in 1..MaxInertia :
        \E phi \in PhiArrays(m), s0 \in State0(m), thr0 \in ThresholdsWide(m), discount \in Discounts(inertia) :
            __init__(Args(m, <<TRUE, 1>>, "default", inertia, phi, s0, thr0, discount))

SpecWide == InitWide /\ [][Next]_vars

(***************************************************************************)
(* The same agent called with sequences whose length is not M.             *)
(***************************************************************************)
Lens(m) == {1, m, m + 1}

InitShape ==
    /\ Alone
    /\ \E m \in 1..MaxM, mode \in Modes : \E la \in Lens(m), lt \in Lens(m) :
        __init__(Args(m, <<TRUE, 1>>, mode, 1, Const(m, Rat(1, 2)),
                      <<Alt(la, Rat(1, 2), R1), Const(m, R1), Const(m, R0), Const(m, R1)>>,
                      <<Alt(lt, R0, Rat(1, 2)), Const(m, Rat(1, 2)), Const(m, R1), Const(m, R1)>>,
                      <<R1>>))

\* <<social_component, TA_component>>: all of length m, or one of the four
\* sequences of another length.
ShapeInfluences(m) ==
    {<<Alt(ls, Rat(-1, 1), Rat(1, 2)), <<Const(m, R1), Const(m, R0), Const(m, R1)>>>> : ls \in Lens(m)}
    \cup {<<Const(m, R1), [k \in 1..3 |-> Const(IF k = j THEN l ELSE m, R1)]>> : j \in 1..3, l \in Lens(m)}

ShapeDraws ==
    IF independent(alpha_change) THEN {<<>>} ELSE {Alt(Len(thresholds) + 3, Rat(1, 4), Rat(-1, 4))}

NextShape ==
    /\ \E influence \in ShapeInfluences(M), noise \in ShapeDraws :
          next_step(t + 1, influence[1], influence[2], noise)
    /\ UNCHANGED tick

SpecShape == InitShape /\ [][NextShape]_vars

\* C6 (as claimed): an input sequence whose length disagrees with M is
\* signalled as an error by the call that receives it, at construction or
\* at step time.
C6_MismatchSignalled == ~shape_ok => raised # "none"

====
